---- MODULE Spec2Model ----
(***************************************************************************)
(* resolvconffs: a FUSE filesystem with one file (inode 1) whose backing   *)
(* file is chosen per request from the network namespace of the calling    *)
(* process.  The model follows src/src/main.rs: NetnsMapper::map (the      *)
(* resolver and the seeding of a missing target from a default file) and   *)
(* the fuser::Filesystem handlers of FileMapperFs.                         *)
(*                                                                         *)
(* Strings and paths are sequences of one-character strings.  File         *)
(* contents are run-length encoded (a sequence of runs [b, n]: n bytes of  *)
(* value b), so that lengths around the 65536-byte read clamp are cheap.   *)
(* fuser's session loop dispatches one request at a time to a handler      *)
(* that takes &mut self, so every handler is one action.                   *)
(***************************************************************************)
EXTENDS Integers, Sequences, FiniteSets, TLC

\* cfg: the NetnsMapper (backing_directory, extension, default_file)
\* link: the content of <procfs>/<pid>/ns/net for every pid
\* files, dirWritable: the regular files and whether the backing directory
\*     accepts new ones
\* fds: the daemon's descriptor table
\* rq, mapped, ops, reply: the last request, what the resolver returned for
\*     it, the system calls its handler made on backing files and
\*     descriptors, and the replies it sent
\* pw: the request before the last one, when it was a successful write
VARIABLES cfg, link, files, dirWritable, fds, rq, mapped, ops, reply, pw

vars == <<cfg, link, files, dirWritable, fds, rq, mapped, ops, reply, pw>>

(***************************************************************************)
(* Bounds of the model.                                                    *)
(***************************************************************************)
\* descriptors the process may hold open at once (RLIMIT_NOFILE)
MaxOpen == 2
\* bytes a file may grow beyond the read clamp (RLIMIT_FSIZE)
MaxExtra == 1
\* longest right part (after the first ':') of a symlink content in SpecMap
MaxRight == 3
\* longest file below the read clamp that a write may leave in SpecIO
MaxSmall == 3

(***************************************************************************)
(* Strings.                                                                *)
(***************************************************************************)
\* Option<T>: None, or Some(x); the value of a Some is o[1]
None == <<>>

Some(x) == <<x>>

\* a field of the request that its handler does not take
NA == 0 - 1

Min(a, b) == IF a < b THEN a ELSE b

\* `let x = e; F(x)`: F of the value of e, which is computed once
With(e, F(_)) == CHOOSE v \in {F(x) : x \in {e}} : TRUE

\* index of the first occurrence of character c in s, 0 when there is none
RECURSIVE IndexFrom(_, _, _)
IndexFrom(s, c, i) ==
    IF i > Len(s) THEN 0
    ELSE IF s[i] = c THEN i ELSE IndexFrom(s, c, i + 1)

\* index of the last occurrence of character c in s, 0 when there is none
RECURSIVE LastIndexFrom(_, _, _)
LastIndexFrom(s, c, i) ==
    IF i < 1 THEN 0
    ELSE IF s[i] = c THEN i ELSE LastIndexFrom(s, c, i - 1)

\* str::split_once(':'): the parts before and after the first ':', or None
split_once(s, c) ==
    With(IndexFrom(s, c, 1), LAMBDA i :
        IF i = 0 THEN None
        ELSE Some(<<SubSeq(s, 1, i - 1), SubSeq(s, i + 1, Len(s))>>))

\* str::trim_end_matches(c): every trailing c removed
RECURSIVE trim_end_matches(_, _)
trim_end_matches(s, c) ==
    IF s # <<>> /\ s[Len(s)] = c
    THEN trim_end_matches(SubSeq(s, 1, Len(s) - 1), c)
    ELSE s

\* str::trim_start_matches(c): every leading c removed
RECURSIVE trim_start_matches(_, _)
trim_start_matches(s, c) ==
    IF s # <<>> /\ s[1] = c THEN trim_start_matches(Tail(s), c) ELSE s

(***************************************************************************)
(* std::path::PathBuf.                                                     *)
(***************************************************************************)
is_absolute(p) == p # <<>> /\ p[1] = "/"

\* the two strings joined with no separator
push_Concat(self, p) == self \o p

\* PathBuf::push: an absolute argument replaces the path; otherwise a
\* separator is added unless the path is empty or already ends with one
push(self, p) ==
    IF is_absolute(p) THEN p
    ELSE IF self # <<>> /\ self[Len(self)] # "/" THEN self \o <<"/">> \o p
    ELSE self \o p

\* Components read from the back skip trailing separators and trailing "."
\* components: the path with those removed (its last component ends it)
RECURSIVE StripTrailing(_)
StripTrailing(p) ==
    IF p = <<>> THEN p
    ELSE IF p[Len(p)] = "/" THEN StripTrailing(SubSeq(p, 1, Len(p) - 1))
    ELSE IF Len(p) >= 2 /\ p[Len(p)] = "." /\ p[Len(p) - 1] = "/"
         THEN StripTrailing(SubSeq(p, 1, Len(p) - 1))
    ELSE p

\* Path::file_name as Some(<<start, end>>) indices into p, None when the path
\* ends in "..", is the root, is "." or is empty
file_name(p) ==
    With(StripTrailing(p), LAMBDA q :
    With(LastIndexFrom(q, "/", Len(q)) + 1, LAMBDA s :
    With(SubSeq(q, s, Len(q)), LAMBDA name :
        IF q = <<>> \/ name = <<".", ".">> \/ name = <<".">> THEN None
        ELSE Some(<<s, Len(q)>>))))

\* Path::file_stem as Some(<<start, end>>) indices into p (rsplit_file_at_dot):
\* the name up to its last '.', the whole name when it has no '.' or
\* only a leading one
file_stem(p) ==
    With(file_name(p), LAMBDA fn :
        IF fn = None THEN None
        ELSE With(SubSeq(p, fn[1][1], fn[1][2]), LAMBDA name :
             With(LastIndexFrom(name, ".", Len(name)), LAMBDA d :
                 IF d <= 1 THEN fn ELSE Some(<<fn[1][1], fn[1][1] + d - 2>>))))

\* PathBuf::set_extension: no change when there is no file name; otherwise
\* the path is cut right after the file stem and "." and the extension
\* are appended
set_extension(p, ext) ==
    With(file_stem(p), LAMBDA st :
        IF st = None THEN p
        ELSE SubSeq(p, 1, st[1][2]) \o (IF ext # <<>> THEN <<".">> \o ext ELSE <<>>))

(***************************************************************************)
(* File contents: run-length encoded byte strings.                         *)
(***************************************************************************)
Fill(b, n) == IF n <= 0 THEN <<>> ELSE <<[b |-> b, n |-> n]>>

RECURSIVE DLen(_)
DLen(d) == IF d = <<>> THEN 0 ELSE d[1].n + DLen(Tail(d))

\* concatenation, keeping the encoding canonical
Cat(a, b) ==
    IF a = <<>> THEN b
    ELSE IF b = <<>> THEN a
    ELSE IF a[Len(a)].b = b[1].b
         THEN SubSeq(a, 1, Len(a) - 1)
              \o <<[b |-> b[1].b, n |-> a[Len(a)].n + b[1].n]>> \o Tail(b)
    ELSE a \o b

\* the first k bytes of d
RECURSIVE Take(_, _)
Take(d, k) ==
    IF k <= 0 \/ d = <<>> THEN <<>>
    ELSE IF d[1].n >= k THEN Fill(d[1].b, k)
    ELSE Cat(<<d[1]>>, Take(Tail(d), k - d[1].n))

\* d without its first k bytes
RECURSIVE Drop(_, _)
Drop(d, k) ==
    IF k <= 0 \/ d = <<>> THEN d
    ELSE IF d[1].n > k THEN <<[b |-> d[1].b, n |-> d[1].n - k]>> \o Tail(d)
    ELSE Drop(Tail(d), k - d[1].n)

(***************************************************************************)
(* Program constants and the error numbers of the system calls.            *)
(***************************************************************************)
\* the only inode the engine serves
TheIno == 1
\* read(): size.min(4096 * 16)
ReadClamp == 4096 * 16
\* open(): Mode::from_bits_truncate(0o666), under a umask of 022
CreateMode == 420
S_IFREG == 32768
ENOENT == 2
EIO == 5
EBADF == 9
EACCES == 13
ENOTDIR == 20
EISDIR == 21
EINVAL == 22
EMFILE == 24
EFBIG == 27
O_WRONLY == 1
O_RDWR == 2
O_CREAT == 64
O_TRUNC == 512
O_APPEND == 1024

\* the process's file size limit (RLIMIT_FSIZE)
FileSizeLimit == ReadClamp + MaxExtra

HasBit(flags, bit) == (flags \div bit) % 2 = 1

\* `fh as i32`, `size as i64` and `ret as u32`: the handles, sizes and byte
\* counts of the model stay below 2^31, where these casts change nothing
AsI32(x) == x

AsI64(x) == x

AsU32(x) == x

(***************************************************************************)
(* The file system seen by the daemon.  Directories: the root and the      *)
(* backing directory.  files maps <<directory, name>> to the regular file  *)
(* there; a directory is a sequence of names.  New files can be created    *)
(* only in the backing directory, and only while dirWritable.              *)
(***************************************************************************)
\* the components of a path (separators dropped, empty components dropped)
RECURSIVE Components(_)
Components(p) ==
    IF p = <<>> THEN <<>>
    ELSE With(IndexFrom(p, "/", 1), LAMBDA i :
         With(IF i = 0 THEN p ELSE SubSeq(p, 1, i - 1), LAMBDA head :
         With(IF i = 0 THEN <<>> ELSE SubSeq(p, i + 1, Len(p)), LAMBDA rest :
             IF head = <<>> THEN Components(rest)
             ELSE <<head>> \o Components(rest))))

Dirs == {<<>>, Components(cfg.backing_directory)}

\* The kernel's path walk over the files fs, from directory cur over the
\* components cs: [kind |-> "dir", dir], [kind |-> "file", key] (the entry
\* of a regular file, existing or not, in an existing directory) or
\* [kind |-> "err", errno]
RECURSIVE Walk(_, _, _, _)
Walk(fs, cur, cs, slash) ==
    IF cs = <<>> THEN [kind |-> "dir", dir |-> cur]
    ELSE With(cs[1], LAMBDA c :
             IF c = <<".">> THEN Walk(fs, cur, Tail(cs), slash)
             ELSE IF c = <<".", ".">>
                  THEN Walk(fs, IF cur = <<>> THEN cur ELSE SubSeq(cur, 1, Len(cur) - 1),
                            Tail(cs), slash)
             ELSE IF Append(cur, c) \in Dirs
                  THEN Walk(fs, Append(cur, c), Tail(cs), slash)
             ELSE IF Len(cs) = 1 /\ ~slash
                  THEN [kind |-> "file", key |-> <<cur, c>>]
             ELSE [kind |-> "err",
                   errno |-> IF <<cur, c>> \in DOMAIN fs THEN ENOTDIR ELSE ENOENT])

Resolve(fs, p) ==
    IF p = <<>> THEN [kind |-> "err", errno |-> ENOENT]
    ELSE With(Components(p), LAMBDA cs : Walk(fs, <<>>, cs, p[Len(p)] = "/"))

\* whether a new file can be created at the entry
Creatable(key) == dirWritable /\ key[1] = Components(cfg.backing_directory)

\* one system call in the log of a handler
Op(call, arg, err) == [call |-> call, arg |-> arg, err |-> err]

\* stat(2): [err, st]; fault is an I/O error the environment injects
sys_stat(fs, p, fault) ==
    With(Resolve(fs, p), LAMBDA r :
        IF fault # 0 THEN [err |-> fault]
        ELSE IF r.kind = "err" THEN [err |-> r.errno]
        ELSE IF r.kind = "dir" THEN [err |-> 0, st |-> [size |-> 4096, mode |-> 16877]]
        ELSE IF r.key \notin DOMAIN fs THEN [err |-> ENOENT]
        ELSE [err |-> 0,
              st |-> [size |-> DLen(fs[r.key].data), mode |-> fs[r.key].mode]])

\* std::fs::copy(from, to): [err, fs]; the target gets the contents and
\* the permissions of the source
fs_copy(fs, from, to) ==
    With(Resolve(fs, from), LAMBDA src :
    With(Resolve(fs, to), LAMBDA dst :
        IF src.kind # "file" \/ src.key \notin DOMAIN fs THEN [err |-> EINVAL, fs |-> fs]
        ELSE IF dst.kind = "err" THEN [err |-> dst.errno, fs |-> fs]
        ELSE IF dst.kind = "dir" THEN [err |-> EISDIR, fs |-> fs]
        ELSE IF dst.key \notin DOMAIN fs /\ ~Creatable(dst.key)
             THEN [err |-> EACCES, fs |-> fs]
        ELSE [err |-> 0,
              fs |-> [k \in DOMAIN fs \cup {dst.key} |->
                         IF k = dst.key THEN fs[src.key] ELSE fs[k]]]))

\* the descriptor numbers open() can return, and a closed slot
FirstFd == 4
Fds == FirstFd .. (FirstFd + MaxOpen - 1)
Closed == [key |-> <<>>, acc |-> NA, append |-> FALSE]

FreeFds(fdt) == {fd \in Fds : fdt[fd] = Closed}

LowestFree(fdt) == CHOOSE fd \in FreeFds(fdt) : \A g \in FreeFds(fdt) : fd <= g

\* whether fd is an open descriptor
IsOpen(fdt, fd) == fd \in Fds /\ fdt[fd] # Closed

\* open(2) with mode 0666: [err, fd, fs, fds]
sys_open(fs, fdt, p, flags, fault) ==
    LET acc == flags % 4
        fail(e) == [err |-> e, fs |-> fs, fds |-> fdt]
        done(fs2, key) ==
            With(LowestFree(fdt), LAMBDA fd :
                [err |-> 0, fd |-> fd, fs |-> fs2,
                 fds |-> [fdt EXCEPT ![fd] = [key |-> key, acc |-> acc,
                                              append |-> HasBit(flags, O_APPEND)]]])
    IN  With(Resolve(fs, p), LAMBDA r :
            IF fault # 0 THEN fail(fault)
            ELSE IF FreeFds(fdt) = {} THEN fail(EMFILE)
            ELSE IF r.kind = "err" THEN fail(r.errno)
            ELSE IF r.kind = "dir"
                 THEN IF acc # 0 \/ HasBit(flags, O_CREAT) THEN fail(EISDIR)
                      ELSE done(fs, <<r.dir, <<>>>>)
            ELSE IF r.key \notin DOMAIN fs
                 THEN IF ~HasBit(flags, O_CREAT) THEN fail(ENOENT)
                      ELSE IF ~Creatable(r.key) THEN fail(EACCES)
                      ELSE done([k \in DOMAIN fs \cup {r.key} |->
                                    IF k = r.key
                                    THEN [data |-> <<>>, mode |-> S_IFREG + CreateMode]
                                    ELSE fs[k]], r.key)
            ELSE IF HasBit(flags, O_TRUNC) /\ acc # 0
                 THEN done([fs EXCEPT ![r.key].data = <<>>], r.key)
            ELSE done(fs, r.key))

\* close(2): [err, fds]; the descriptor is released even when close fails
sys_close(fdt, fd, fault) ==
    IF ~IsOpen(fdt, fd) THEN [err |-> EBADF, fds |-> fdt]
    ELSE [err |-> fault, fds |-> [fdt EXCEPT ![fd] = Closed]]

\* fsync(2) and fdatasync(2): [err]
sys_fsync(fdt, fd, fault) ==
    IF ~IsOpen(fdt, fd) THEN [err |-> EBADF] ELSE [err |-> fault]

\* pread(2) of count bytes at offset: [err, data]
sys_pread(fs, fdt, fd, count, offset, fault) ==
    IF ~IsOpen(fdt, fd) \/ fdt[fd].acc = O_WRONLY THEN [err |-> EBADF]
    ELSE IF offset < 0 THEN [err |-> EINVAL]
    ELSE IF fdt[fd].key \notin DOMAIN fs THEN [err |-> EISDIR]
    ELSE IF fault # 0 THEN [err |-> fault]
    ELSE [err |-> 0, data |-> Take(Drop(fs[fdt[fd].key].data, offset), count)]

\* data with the first n bytes of new written at offset off
Overwrite(data, off, new, n) ==
    Cat(Cat(Take(Cat(data, Fill(0, off - DLen(data))), off), Take(new, n)),
        Drop(data, off + n))

\* pwrite(2): [err, ret, fs]; an O_APPEND descriptor writes at the end of
\* the file whatever the offset (Linux), and a write that crosses the file
\* size limit is cut short
sys_pwrite(fs, fdt, fd, data, offset, fault) ==
    IF ~IsOpen(fdt, fd) \/ fdt[fd].acc = 0 THEN [err |-> EBADF, fs |-> fs]
    ELSE IF offset < 0 THEN [err |-> EINVAL, fs |-> fs]
    ELSE IF fault # 0 THEN [err |-> fault, fs |-> fs]
    ELSE With(fdt[fd].key, LAMBDA key :
         With(IF fdt[fd].append THEN DLen(fs[key].data) ELSE offset, LAMBDA off :
         With(Min(DLen(data), FileSizeLimit - off), LAMBDA n :
             IF DLen(data) = 0 THEN [err |-> 0, ret |-> 0, fs |-> fs]
             ELSE IF n <= 0 THEN [err |-> EFBIG, fs |-> fs]
             ELSE [err |-> 0, ret |-> n,
                   fs |-> [fs EXCEPT ![key].data = Overwrite(@, off, data, n)]])))

\* data cut or zero-extended to size bytes
Resize(data, size) == Take(Cat(data, Fill(0, size - DLen(data))), size)

\* the common part of truncate(2) and ftruncate(2) once the file is found
TruncateKey(fs, key, size, fault) ==
    IF size < 0 THEN [err |-> EINVAL, fs |-> fs]
    ELSE IF size > FileSizeLimit THEN [err |-> EFBIG, fs |-> fs]
    ELSE IF fault # 0 THEN [err |-> fault, fs |-> fs]
    ELSE [err |-> 0, fs |-> [fs EXCEPT ![key].data = Resize(@, size)]]

\* truncate(2) of a path: [err, fs]
sys_truncate(fs, p, size, fault) ==
    With(Resolve(fs, p), LAMBDA r :
        IF r.kind = "err" THEN [err |-> r.errno, fs |-> fs]
        ELSE IF r.kind = "dir" THEN [err |-> EISDIR, fs |-> fs]
        ELSE IF r.key \notin DOMAIN fs THEN [err |-> ENOENT, fs |-> fs]
        ELSE TruncateKey(fs, r.key, size, fault))

\* ftruncate(2) of a descriptor: [err, fs]
sys_ftruncate(fs, fdt, fd, size, fault) ==
    IF ~IsOpen(fdt, fd) THEN [err |-> EBADF, fs |-> fs]
    ELSE IF fdt[fd].acc = 0 \/ fdt[fd].key \notin DOMAIN fs THEN [err |-> EINVAL, fs |-> fs]
    ELSE TruncateKey(fs, fdt[fd].key, size, fault)

(***************************************************************************)
(* NetnsMapper::map.                                                       *)
(***************************************************************************)
\* readlink results that are not text: no such link, and a target that is
\* not valid UTF-8
Str_net == <<"n", "e", "t">>

NoLink == [kind |-> "nolink", s |-> <<>>]
NonUtf8 == [kind |-> "nonutf8", s |-> <<>>]
Text(s) == [kind |-> "text", s |-> s]

\* a prefix test in place of the equality
PrefixOk_StartsWith(net) == Len(net) >= 3 /\ SubSeq(net, 1, 3) = Str_net

\* net != "net" fails the resolution
PrefixOk(net) == net = Str_net

\* ns.trim_end_matches(']').trim_start_matches('[')
NsOnly(ns) == trim_start_matches(trim_end_matches(ns, "]"), "[")

\* the path map builds from the content of <procfs>/<pid>/ns/net, or None
TargetPath(netns) ==
    IF netns.kind # "text" THEN None
    ELSE With(split_once(netns.s, ":"), LAMBDA x :
             IF x = None THEN None
             ELSE IF ~PrefixOk(x[1][1]) THEN None
             ELSE With(NsOnly(x[1][2]), LAMBDA nsonly :
                  With(push(push(<<>>, cfg.backing_directory), nsonly), LAMBDA pushed :
                      Some(IF Len(cfg.extension) > 0
                           THEN set_extension(pushed, cfg.extension)
                           ELSE pushed))))

\* a seeding with the test of the metadata query inverted: the copy is made
\* when the target exists, not when it is missing
Seed_Inverted(fs, targetfile) ==
    IF cfg.default_file = None THEN [fs |-> fs, ops |-> <<>>]
    ELSE With(sys_stat(fs, targetfile, 0), LAMBDA md :
             IF md.err # 0
             THEN [fs |-> fs, ops |-> <<Op("metadata", targetfile, md.err)>>]
             ELSE With(fs_copy(fs, cfg.default_file[1], targetfile), LAMBDA c :
                      [fs |-> c.fs,
                       ops |-> <<Op("metadata", targetfile, md.err),
                                 Op("copy", targetfile, c.err)>>]))

\* a seeding that copies the default file without looking at the target
Seed_Always(fs, targetfile) ==
    IF cfg.default_file = None THEN [fs |-> fs, ops |-> <<>>]
    ELSE With(fs_copy(fs, cfg.default_file[1], targetfile), LAMBDA c :
             [fs |-> c.fs, ops |-> <<Op("copy", targetfile, c.err)>>])

\* the seeding of a missing target from the default file: [fs, ops]
Seed(fs, targetfile) ==
    IF cfg.default_file = None THEN [fs |-> fs, ops |-> <<>>]
    ELSE With(sys_stat(fs, targetfile, 0), LAMBDA md :
             IF md.err = 0
             THEN [fs |-> fs, ops |-> <<Op("metadata", targetfile, 0)>>]
             ELSE With(fs_copy(fs, cfg.default_file[1], targetfile), LAMBDA c :
                      [fs |-> c.fs,
                       ops |-> <<Op("metadata", targetfile, md.err),
                                 Op("copy", targetfile, c.err)>>]))

\* the regular file at path p, as an Option
FileAt(fs, p) ==
    With(Resolve(fs, p), LAMBDA r :
        IF r.kind = "file" /\ r.key \in DOMAIN fs THEN Some(fs[r.key]) ELSE None)

\* What a call of map leaves in the variable mapped: the pid, the link
\* content read, the path returned, and the target file as it was when map
\* was entered (before) and when it returned (after)
Mapped(r, netns, targetfile, fs, fs2) ==
    [called |-> TRUE, pid |-> r.pid, netns |-> netns, path |-> targetfile,
     before |-> IF targetfile = None THEN None ELSE FileAt(fs, targetfile[1]),
     after |-> IF targetfile = None THEN None ELSE FileAt(fs2, targetfile[1])]

\* a map that gives up when the copy of the default file fails
Map_FailOnCopyError(fs, r) ==
    With(link[r.pid], LAMBDA netns :
    With(TargetPath(netns), LAMBDA targetfile :
    With(IF targetfile = None THEN [fs |-> fs, ops |-> <<>>]
         ELSE Seed(fs, targetfile[1]), LAMBDA seeded :
    With(IF \E i \in DOMAIN seeded.ops :
               seeded.ops[i].call = "copy" /\ seeded.ops[i].err # 0
         THEN None ELSE targetfile, LAMBDA path :
        [path |-> path, fs |-> seeded.fs, ops |-> seeded.ops,
         mapped |-> Mapped(r, netns, path, fs, seeded.fs)]))))

\* map(rq) on the files fs: [path (an Option), fs, ops, mapped]
Map(fs, r) ==
    With(link[r.pid], LAMBDA netns :
    With(TargetPath(netns), LAMBDA targetfile :
    With(IF targetfile = None THEN [fs |-> fs, ops |-> <<>>]
         ELSE Seed(fs, targetfile[1]), LAMBDA seeded :
        [path |-> targetfile, fs |-> seeded.fs, ops |-> seeded.ops,
         mapped |-> Mapped(r, netns, targetfile, fs, seeded.fs)])))

\* a resolver that yields nothing falls back to the backing directory
get_backing_file_Fallback(fs, r) ==
    With(Map(fs, r), LAMBDA m :
        [err |-> 0,
         path |-> IF m.path = None THEN Some(cfg.backing_directory) ELSE m.path,
         fs |-> m.fs, ops |-> m.ops, mapped |-> m.mapped])

\* FileMapperFs::get_backing_file: [err, path, fs, ops, mapped]
get_backing_file(fs, r) ==
    With(Map(fs, r), LAMBDA m :
        [err |-> IF m.path = None THEN ENOENT ELSE 0,
         path |-> m.path, fs |-> m.fs, ops |-> m.ops, mapped |-> m.mapped])

(***************************************************************************)
(* Replies.                                                                *)
(***************************************************************************)
ReplyError(e) == [kind |-> "error", errno |-> e]

ReplyAttr(ino, st) ==
    [kind |-> "attr",
     attr |-> [ino |-> ino, size |-> st.size, perm |-> st.mode % 65536,
               nlink |-> 1, rdev |-> 0, flags |-> 0, crtime |-> 0,
               kind |-> "RegularFile"]]

ReplyOpened(fh) == [kind |-> "opened", fh |-> fh, flags |-> "FOPEN_DIRECT_IO"]

ReplyOk == [kind |-> "ok"]

ReplyData(d) == [kind |-> "data", data |-> d]

ReplyWritten(n) == [kind |-> "written", size |-> n]

\* a getattr_impl that replies ENOENT whatever made the stat fail
getattr_impl_Translate(fs, f, ino, fault) ==
    With(sys_stat(fs, f, fault), LAMBDA s :
        [ops |-> <<Op("stat", f, s.err)>>,
         reply |-> IF s.err # 0 THEN ReplyError(ENOENT) ELSE ReplyAttr(ino, s.st)])

\* getattr_impl: [ops, reply]
getattr_impl(fs, f, ino, fault) ==
    With(sys_stat(fs, f, fault), LAMBDA s :
        [ops |-> <<Op("stat", f, s.err)>>,
         reply |-> IF s.err # 0 THEN ReplyError(s.err) ELSE ReplyAttr(ino, s.st)])

(***************************************************************************)
(* The state and the inputs.                                               *)
(***************************************************************************)
\* mapped when the handler did not call the resolver
NotCalled ==
    [called |-> FALSE, pid |-> NA, netns |-> NoLink, path |-> None,
     before |-> None, after |-> None]

Pids == {41, 42}
\* uid and gid of the requesting process
Creds == {<<0, 0>>, <<1000, 100>>}
Inos == {TheIno, 2}
Faults == {0, EIO}

Request(pid, cred) == [pid |-> pid, uid |-> cred[1], gid |-> cred[2]]

Dir_d == <<"/", "d">>
Ext_c == <<"c">>
DefaultPath == <<"/", "t">>
DefaultKey == <<<<>>, <<"t">>>>
TemplateData == Fill(7, 3)

Configs ==
    {[backing_directory |-> Dir_d, extension |-> e, default_file |-> d] :
        e \in {Ext_c}, d \in {None, Some(DefaultPath)}}

NetLink(id) == Str_net \o <<":", "[">> \o id \o <<"]">>

LinkValues ==
    {Text(NetLink(<<"1">>)), Text(NetLink(<<"2">>)),
     Text(<<"f", "o", "o", ":", "[", "1", "]">>)}

\* the request, with the fields a handler does not take set to NA (fh and
\* size are Options in setattr); data is the data of a write, other is
\* whether a setattr carries more than a size, flags are those of an open,
\* fault the I/O errors injected into the system calls of the handler
Rq(op, ino, pid, fh, size, offset, data) ==
    [op |-> op, ino |-> ino, pid |-> pid, fh |-> fh, size |-> size,
     offset |-> offset, data |-> data, other |-> FALSE, flags |-> NA,
     fault |-> <<>>]

\* the request r with the I/O errors f the environment injects while it is
\* handled
WithFault(r, f) == [r EXCEPT !.fault = f]

\* the session loop waiting for the next request
Idle == Rq("idle", NA, NA, NA, NA, NA, <<>>)

\* what the last request was when it was a write at offset 0 that was
\* replied to with a byte count, None otherwise
PrevWrite ==
    IF rq.op = "write" /\ rq.offset = 0 /\ reply[1].kind = "written"
    THEN Some([fh |-> rq.fh, offset |-> rq.offset, data |-> rq.data,
               ret |-> reply[1].size])
    ELSE None

\* the end of a handler: the new state
Finish(r, fs, fdt, m, o, rep) ==
    /\ rq' = r
    /\ files' = fs
    /\ fds' = fdt
    /\ mapped' = m
    /\ ops' = o
    /\ reply' = rep
    /\ UNCHANGED <<cfg, link, dirWritable, pw>>

(***************************************************************************)
(* The handlers of impl fuser::Filesystem for FileMapperFs.  Each takes    *)
(* the request's pid and credentials, its arguments, and the I/O error     *)
(* (0: none) the environment injects into its system call.                 *)
(***************************************************************************)
getattr(pid, cred, ino, fault) ==
    LET r == WithFault(Rq("getattr", ino, pid, NA, NA, NA, <<>>), <<fault>>)
    IN  IF ino = TheIno
        THEN \E bf \in {get_backing_file(files, Request(pid, cred))} :
                 IF bf.err # 0
                 THEN Finish(r, bf.fs, fds, bf.mapped, bf.ops, <<ReplyError(bf.err)>>)
                 ELSE \E g \in {getattr_impl(bf.fs, bf.path[1], ino, fault)} :
                          Finish(r, bf.fs, fds, bf.mapped, bf.ops \o g.ops, <<g.reply>>)
        ELSE Finish(r, files, fds, NotCalled, <<>>, <<ReplyError(ENOENT)>>)

\* an open that replies with the first descriptor number, whatever
\* descriptor the system call returned
open_FixedHandle(pid, cred, ino, flags, fault) ==
    LET r == [WithFault(Rq("open", ino, pid, NA, NA, NA, <<>>), <<fault>>)
                 EXCEPT !.flags = flags]
    IN  IF ino # TheIno
        THEN Finish(r, files, fds, NotCalled, <<>>, <<ReplyError(ENOENT)>>)
        ELSE \E bf \in {get_backing_file(files, Request(pid, cred))} :
                 IF bf.err # 0
                 THEN Finish(r, bf.fs, fds, bf.mapped, bf.ops, <<ReplyError(bf.err)>>)
                 ELSE \E o \in {sys_open(bf.fs, fds, bf.path[1], flags, fault)} :
                          Finish(r, o.fs, o.fds, bf.mapped,
                                 bf.ops \o <<Op("open", bf.path[1], o.err)>>,
                                 <<IF o.err = 0 THEN ReplyOpened(FirstFd)
                                   ELSE ReplyError(o.err)>>)

open(pid, cred, ino, flags, fault) ==
    LET r == [WithFault(Rq("open", ino, pid, NA, NA, NA, <<>>), <<fault>>)
                 EXCEPT !.flags = flags]
    IN  IF ino # TheIno
        THEN Finish(r, files, fds, NotCalled, <<>>, <<ReplyError(ENOENT)>>)
        ELSE \E bf \in {get_backing_file(files, Request(pid, cred))} :
                 IF bf.err # 0
                 THEN Finish(r, bf.fs, fds, bf.mapped, bf.ops, <<ReplyError(bf.err)>>)
                 ELSE \E o \in {sys_open(bf.fs, fds, bf.path[1], flags, fault)} :
                          Finish(r, o.fs, o.fds, bf.mapped,
                                 bf.ops \o <<Op("open", bf.path[1], o.err)>>,
                                 <<IF o.err = 0 THEN ReplyOpened(o.fd)
                                   ELSE ReplyError(o.err)>>)

release(pid, ino, fh64, fault) ==
    LET r == WithFault(Rq("release", ino, pid, fh64, NA, NA, <<>>), <<fault>>)
        fh == AsI32(fh64)
    IN  \E c \in {sys_close(fds, fh, fault)} :
            Finish(r, files, c.fds, NotCalled, <<Op("close", fh, c.err)>>,
                   <<IF c.err = 0 THEN ReplyOk ELSE ReplyError(c.err)>>)

fsync(pid, ino, fh64, datasync, fault) ==
    LET r == WithFault(Rq("fsync", ino, pid, fh64, NA, NA, <<>>), <<fault>>)
        fh == AsI32(fh64)
    IN  \E c \in {sys_fsync(fds, fh, fault)} :
            Finish(r, files, fds, NotCalled,
                   <<Op(IF datasync THEN "fdatasync" ELSE "fsync", fh, c.err)>>,
                   <<IF c.err = 0 THEN ReplyOk ELSE ReplyError(c.err)>>)

\* a clamp to one page
ClampSize_Page(size) == Min(size, 4096)

\* size.min(4096 * 16)
ClampSize(size) == Min(size, ReadClamp)

\* a reply with the whole buffer, whatever pread returned
ReadReply_WholeBuffer(size, got) == Cat(got, Fill(0, size - DLen(got)))

\* the bytes of the reply: buf[0..ret] of the zeroed buffer of size bytes
\* into which pread put ret bytes
ReadReply(size, got) ==
    LET buf == Cat(got, Fill(0, size - DLen(got)))
    IN  Take(buf, DLen(got))

read(pid, ino, fh64, offset, size0, fault) ==
    LET r == WithFault(Rq("read", ino, pid, fh64, size0, offset, <<>>), <<fault>>)
        fh == AsI32(fh64)
    IN  \E size \in {ClampSize(size0)} :
        \E p \in {sys_pread(files, fds, fh, size, offset, fault)} :
            Finish(r, files, fds, NotCalled, <<Op("pread", fh, p.err)>>,
                   <<IF p.err # 0 THEN ReplyError(p.err)
                     ELSE ReplyData(ReadReply(size, p.data))>>)

\* a write that asks the resolver first, as getattr and open do, and
\* fails when the caller resolves to nothing
write_Resolving(pid, ino, fh64, offset, data, fault) ==
    LET r == WithFault(Rq("write", ino, pid, fh64, NA, offset, data), <<fault>>)
        fh == AsI32(fh64)
    IN  \E bf \in {get_backing_file(files, Request(pid, <<0, 0>>))} :
            IF bf.err # 0
            THEN Finish(r, bf.fs, fds, bf.mapped, bf.ops, <<ReplyError(bf.err)>>)
            ELSE \E w \in {sys_pwrite(bf.fs, fds, fh, data, offset, fault)} :
                     Finish(r, w.fs, fds, bf.mapped,
                            bf.ops \o <<Op("pwrite", fh, w.err)>>,
                            <<IF w.err # 0 THEN ReplyError(w.err)
                              ELSE ReplyWritten(AsU32(w.ret))>>)

write(pid, ino, fh64, offset, data, fault) ==
    LET r == WithFault(Rq("write", ino, pid, fh64, NA, offset, data), <<fault>>)
        fh == AsI32(fh64)
    IN  \E w \in {sys_pwrite(files, fds, fh, data, offset, fault)} :
            Finish(r, w.fs, fds, NotCalled, <<Op("pwrite", fh, w.err)>>,
                   <<IF w.err # 0 THEN ReplyError(w.err)
                     ELSE ReplyWritten(AsU32(w.ret))>>)

\* a truncation that always goes to the resolved path
SetSize_PathOnly(fs, bf, size, fh64, fault) ==
    With(sys_truncate(fs, bf, AsI64(size), fault), LAMBDA t :
        [err |-> t.err, fs |-> t.fs, ops |-> <<Op("truncate", bf, t.err)>>])

\* the truncation of setattr: ftruncate of the handle when there is one,
\* truncate of the resolved path otherwise: [err, fs, ops]
SetSize(fs, bf, size, fh64, fault) ==
    IF fh64 # None
    THEN With(sys_ftruncate(fs, fds, AsI32(fh64[1]), AsI64(size), fault), LAMBDA t :
             [err |-> t.err, fs |-> t.fs,
              ops |-> <<Op("ftruncate", AsI32(fh64[1]), t.err)>>])
    ELSE With(sys_truncate(fs, bf, AsI64(size), fault), LAMBDA t :
             [err |-> t.err, fs |-> t.fs, ops |-> <<Op("truncate", bf, t.err)>>])

\* a setattr that goes on to the stat when the truncation has failed
setattr_NoEarlyReturn(pid, cred, ino, size, fh64, other, faultT, faultS) ==
    LET r == [WithFault(Rq("setattr", ino, pid, fh64, size, NA, <<>>),
                        <<faultT, faultS>>) EXCEPT !.other = other]
    IN  IF ino # TheIno
        THEN Finish(r, files, fds, NotCalled, <<>>, <<ReplyError(ENOENT)>>)
        ELSE \E bf \in {get_backing_file(files, Request(pid, cred))} :
                 IF bf.err # 0
                 THEN Finish(r, bf.fs, fds, bf.mapped, bf.ops, <<ReplyError(bf.err)>>)
                 ELSE \E t \in {IF size # None
                                THEN SetSize(bf.fs, bf.path[1], size[1], fh64, faultT)
                                ELSE [err |-> 0, fs |-> bf.fs, ops |-> <<>>]} :
                      \E g \in {getattr_impl(t.fs, bf.path[1], ino, faultS)} :
                          Finish(r, t.fs, fds, bf.mapped,
                                 bf.ops \o t.ops \o g.ops, <<g.reply>>)

\* a setattr that takes a missing size as 0 (unwrap_or_default)
setattr_DefaultSize(pid, cred, ino, size, fh64, other, faultT, faultS) ==
    LET r == [WithFault(Rq("setattr", ino, pid, fh64, size, NA, <<>>),
                        <<faultT, faultS>>) EXCEPT !.other = other]
    IN  IF ino # TheIno
        THEN Finish(r, files, fds, NotCalled, <<>>, <<ReplyError(ENOENT)>>)
        ELSE \E bf \in {get_backing_file(files, Request(pid, cred))} :
                 IF bf.err # 0
                 THEN Finish(r, bf.fs, fds, bf.mapped, bf.ops, <<ReplyError(bf.err)>>)
                 ELSE \E t \in {SetSize(bf.fs, bf.path[1],
                                         IF size # None THEN size[1] ELSE 0,
                                         fh64, faultT)} :
                          IF t.err # 0
                          THEN Finish(r, t.fs, fds, bf.mapped, bf.ops \o t.ops,
                                      <<ReplyError(t.err)>>)
                          ELSE \E g \in {getattr_impl(t.fs, bf.path[1], ino, faultS)} :
                                   Finish(r, t.fs, fds, bf.mapped,
                                          bf.ops \o t.ops \o g.ops, <<g.reply>>)

\* size and fh64 are Options; other: whether the request also carries a
\* mode, uid, gid or timestamps
setattr(pid, cred, ino, size, fh64, other, faultT, faultS) ==
    LET r == [WithFault(Rq("setattr", ino, pid, fh64, size, NA, <<>>),
                        <<faultT, faultS>>) EXCEPT !.other = other]
    IN  IF ino # TheIno
        THEN Finish(r, files, fds, NotCalled, <<>>, <<ReplyError(ENOENT)>>)
        ELSE \E bf \in {get_backing_file(files, Request(pid, cred))} :
                 IF bf.err # 0
                 THEN Finish(r, bf.fs, fds, bf.mapped, bf.ops, <<ReplyError(bf.err)>>)
                 ELSE \E t \in {IF size # None
                                THEN SetSize(bf.fs, bf.path[1], size[1], fh64, faultT)
                                ELSE [err |-> 0, fs |-> bf.fs, ops |-> <<>>]} :
                          IF t.err # 0
                          THEN Finish(r, t.fs, fds, bf.mapped, bf.ops \o t.ops,
                                      <<ReplyError(t.err)>>)
                          ELSE \E g \in {getattr_impl(t.fs, bf.path[1], ino, faultS)} :
                                   Finish(r, t.fs, fds, bf.mapped,
                                          bf.ops \o t.ops \o g.ops, <<g.reply>>)

(***************************************************************************)
(* fuser's session loop (mount2): after the handler has replied, the loop  *)
(* takes the next request.  track: whether pw keeps the last write.        *)
(***************************************************************************)
NextRequest(track) ==
    /\ rq.op # "idle"
    /\ rq' = Idle
    /\ mapped' = NotCalled
    /\ ops' = <<>>
    /\ reply' = <<>>
    /\ pw' = IF track THEN PrevWrite ELSE None
    /\ UNCHANGED <<cfg, link, files, dirWritable, fds>>

(***************************************************************************)
(* The environment: the namespace of a process changes (setns, or the pid  *)
(* is reused) between two requests.                                        *)
(***************************************************************************)
EnvSetLink(pid, v) ==
    /\ link[pid] # v
    /\ link' = [link EXCEPT ![pid] = v]
    /\ UNCHANGED <<cfg, files, dirWritable, fds, rq, mapped, ops, reply, pw>>

(***************************************************************************)
(* The specification of the engine.                                        *)
(***************************************************************************)
TargetKey(id) == <<Components(Dir_d), id \o <<".">> \o Ext_c>>

RegularFile(data) == [data |-> data, mode |-> S_IFREG + CreateMode]

\* the default file, when configured, may be missing; the target of
\* namespace 1 may exist; the target of namespace 2 does not exist yet
InitialFiles(c) ==
    {[k \in ks |-> IF k = DefaultKey THEN RegularFile(TemplateData)
                   ELSE RegularFile(Fill(1, 2))] :
        ks \in SUBSET ((IF c.default_file = None THEN {} ELSE {DefaultKey})
                       \cup {TargetKey(<<"1">>)})}

\* the processes outside pids make no request and have no readable link
InitWith(pids, links) ==
    /\ cfg \in Configs
    /\ link \in {f \in [Pids -> links \cup {NoLink}] :
                    \A p \in Pids : (p \in pids) = (f[p] # NoLink)}
    /\ files \in InitialFiles(cfg)
    /\ dirWritable \in BOOLEAN
    /\ fds = [fd \in Fds |-> Closed]
    /\ rq = Idle
    /\ mapped = NotCalled
    /\ ops = <<>>
    /\ reply = <<>>
    /\ pw = None

\* the faults of setattr: in its truncation, in its stat
SetattrFaults == {<<0, 0>>, <<EIO, 0>>, <<0, EIO>>}

\* the file lengths the model explores: a write that would leave another
\* length is not taken
LengthExplored(n) == n <= MaxSmall \/ n >= ReadClamp

\* One step of the engine with the inputs I: a record of the sets the
\* arguments of the requests are drawn from
NextOf(I) ==
    \/ \E pid \in I.pids, cred \in I.creds, ino \in I.inos, fault \in I.faults :
           rq.op = "idle" /\ getattr(pid, cred, ino, fault)
    \/ \E pid \in I.pids, cred \in I.creds, ino \in I.inos, flags \in I.flags,
          fault \in I.faults :
           rq.op = "idle" /\ open(pid, cred, ino, flags, fault)
    \/ \E pid \in I.pids, ino \in I.inos, fh \in Fds, fault \in I.faults :
           rq.op = "idle" /\ release(pid, ino, fh, fault)
    \/ \E pid \in I.pids, ino \in I.inos, fh \in Fds, datasync \in BOOLEAN,
          fault \in I.faults :
           rq.op = "idle" /\ fsync(pid, ino, fh, datasync, fault)
    \/ \E pid \in I.pids, ino \in I.inos, fh \in Fds, offset \in I.offsets,
          size \in I.rsizes, fault \in I.faults :
           rq.op = "idle" /\ read(pid, ino, fh, offset, size, fault)
    \/ \E pid \in I.pids, ino \in I.inos, fh \in Fds, offset \in I.offsets,
          data \in I.wdata, fault \in I.faults :
           /\ rq.op = "idle"
           /\ write(pid, ino, fh, offset, data, fault)
           /\ \A k \in DOMAIN files' : LengthExplored(DLen(files'[k].data))
    \/ \E pid \in I.pids, cred \in I.creds, ino \in I.inos, size \in I.nsizes,
          fh \in {None} \cup {Some(f) : f \in Fds}, other \in BOOLEAN,
          fault \in I.sfaults :
           rq.op = "idle" /\ setattr(pid, cred, ino, size, fh, other, fault[1], fault[2])
    \/ \E pid \in I.pids, v \in I.links : rq.op = "idle" /\ EnvSetLink(pid, v)
    \/ NextRequest(I.track)

\* the engine over two namespaces and a malformed link, with little
\* variety in the I/O
EngineInputs ==
    [pids |-> {42}, creds |-> {<<1000, 100>>}, inos |-> Inos, faults |-> Faults,
     sfaults |-> SetattrFaults, flags |-> {O_RDWR, O_RDWR + O_CREAT}, offsets |-> {0}, rsizes |-> {1},
     wdata |-> {Fill(2, 1)}, nsizes |-> {None, Some(0)}, links |-> LinkValues,
     track |-> FALSE]

Init == InitWith(EngineInputs.pids, EngineInputs.links)

Next == NextOf(EngineInputs)

Spec == Init /\ [][Next]_vars

(***************************************************************************)
(* The specification of the I/O on a handle: one namespace (and a          *)
(* malformed link), every access mode, reads and writes around the read    *)
(* clamp.                                                                  *)
(***************************************************************************)
IOInputs ==
    [pids |-> {42}, creds |-> {<<1000, 100>>}, inos |-> {TheIno}, faults |-> {0},
     sfaults |-> {<<0, 0>>},
     flags |-> {0, O_WRONLY + O_APPEND, O_RDWR}, offsets |-> {0, 1},
     rsizes |-> {0, 1, ReadClamp, ReadClamp + 1, 1048576},
     wdata |-> {<<>>, Fill(2, 1), Fill(2, ReadClamp + 1)},
     nsizes |-> {None, Some(0)},
     links |-> {Text(NetLink(<<"1">>)), Text(<<"f", "o", "o", ":", "[", "1", "]">>)},
     track |-> TRUE]

InitIO ==
    /\ InitWith(IOInputs.pids, IOInputs.links)
    /\ cfg.default_file = None
    /\ dirWritable

NextIO == NextOf(IOInputs)

SpecIO == InitIO /\ [][NextIO]_vars

(***************************************************************************)
(* The specification of the resolver alone: map is called again and again  *)
(* on a symlink content drawn from the strings with and without ':'.       *)
(***************************************************************************)
RightAlphabet == {"1", "[", "]", ":", ".", "/"}

\* the strings over alphabet of length at most n
RECURSIVE Strings(_, _)
Strings(alphabet, n) ==
    IF n = 0 THEN {<<>>}
    ELSE LET shorter == Strings(alphabet, n - 1)
         IN  shorter \cup {Append(t, c) : t \in shorter, c \in alphabet}

Prefixes == {Str_net, <<"f", "o", "o">>, <<"n", "e">>, <<"n", "e", "t", "t">>, <<>>}

\* the scenario of the specification: net:[4026531992] under
\* /etc/netns-files with extension conf
Str_example == <<"4", "0", "2", "6", "5", "3", "1", "9", "9", "2">>
Dir_example ==
    <<"/", "e", "t", "c", "/", "n", "e", "t", "n", "s", "-", "f", "i", "l", "e", "s">>
Ext_conf == <<"c", "o", "n", "f">>

MapLinks ==
    {NoLink, NonUtf8, Text(NetLink(Str_example)), Text(NetLink(<<"1", "2">>))}
    \cup {Text(p) : p \in Prefixes}
    \cup {Text(p \o <<":">> \o r) : p \in Prefixes, r \in Strings(RightAlphabet, MaxRight)}

MapConfigs ==
    {[backing_directory |-> Dir_d, extension |-> e, default_file |-> d] :
        e \in {Ext_c, <<>>}, d \in {None, Some(DefaultPath)}}
    \cup {[backing_directory |-> Dir_example, extension |-> Ext_conf, default_file |-> None]}

MapStep(pid, cred) ==
    \E m \in {Map(files, Request(pid, cred))} :
        /\ rq' = Rq("map", NA, pid, NA, NA, NA, <<>>)
        /\ files' = m.fs
        /\ mapped' = m.mapped
        /\ ops' = m.ops
        /\ UNCHANGED <<cfg, link, dirWritable, fds, reply, pw>>

InitMap ==
    /\ cfg \in MapConfigs
    /\ link \in {[p \in Pids |-> IF p = q THEN v ELSE NoLink] : q \in Pids, v \in MapLinks}
    /\ files \in {[k \in ks |-> RegularFile(TemplateData)] :
                     ks \in IF cfg.default_file = None THEN {{}} ELSE {{}, {DefaultKey}}}
    /\ dirWritable \in IF cfg.default_file = None THEN {TRUE} ELSE BOOLEAN
    /\ fds = [fd \in Fds |-> Closed]
    /\ rq = Idle
    /\ mapped = NotCalled
    /\ ops = <<>>
    /\ reply = <<>>
    /\ pw = None

NextMap == \E pid \in Pids, cred \in Creds : MapStep(pid, cred)

SpecMap == InitMap /\ [][NextMap]_vars

(***************************************************************************)
(* The specification of the seeding, with map in two steps: up to the      *)
(* metadata query, and the copy.  Other processes write to the backing     *)
(* directory at any time, also between the two.  The session loop takes a  *)
(* request only when the handler of the one before has returned.           *)
(***************************************************************************)
\* what a process outside the daemon writes
OtherData == Fill(9, 1)

SeedLinks == {Text(NetLink(<<"1">>)), Text(NetLink(<<"2">>))}

\* the end of a step of map
MapAt(op, pid, fs, m, o) ==
    /\ rq' = Rq(op, NA, pid, NA, NA, NA, <<>>)
    /\ files' = fs
    /\ mapped' = m
    /\ ops' = o
    /\ UNCHANGED <<cfg, link, dirWritable, fds, reply, pw>>

\* a map that another request can enter while one is in it
MapCheck_Unserialized(pid, cred) ==
    \E r \in {Request(pid, cred)}, t \in {TargetPath(link[pid])} :
        IF t = None \/ cfg.default_file = None
        THEN MapAt("map", pid, files, Mapped(r, link[pid], t, files, files), <<>>)
        ELSE \E md \in {sys_stat(files, t[1], 0)} :
                 MapAt(IF md.err = 0 THEN "map" ELSE "map_checked", pid, files,
                       Mapped(r, link[pid], t, files, files),
                       <<Op("metadata", t[1], md.err)>>)

\* map from its entry to the metadata query on the target: the request is
\* left at "map_checked" when the copy is to follow
MapCheck(pid, cred) ==
    /\ rq.op = "idle"
    /\ \E r \in {Request(pid, cred)}, t \in {TargetPath(link[pid])} :
           IF t = None \/ cfg.default_file = None
           THEN MapAt("map", pid, files, Mapped(r, link[pid], t, files, files), <<>>)
           ELSE \E md \in {sys_stat(files, t[1], 0)} :
                    MapAt(IF md.err = 0 THEN "map" ELSE "map_checked", pid, files,
                          Mapped(r, link[pid], t, files, files),
                          <<Op("metadata", t[1], md.err)>>)

\* the copy of the default file, and the return of map
MapCopy ==
    /\ rq.op = "map_checked"
    /\ \E c \in {fs_copy(files, cfg.default_file[1], mapped.path[1])} :
           MapAt("map", rq.pid, c.fs,
                 [mapped EXCEPT !.after = FileAt(c.fs, mapped.path[1])],
                 Append(ops, Op("copy", mapped.path[1], c.err)))

\* a process outside the daemon writes the target of namespace id
OtherWriter(id) ==
    /\ dirWritable
    /\ IF TargetKey(id) \in DOMAIN files
       THEN files[TargetKey(id)].data # OtherData
       ELSE TRUE
    /\ files' = [k \in DOMAIN files \cup {TargetKey(id)} |->
                    IF k = TargetKey(id) THEN RegularFile(OtherData) ELSE files[k]]
    /\ UNCHANGED <<cfg, link, dirWritable, fds, rq, mapped, ops, reply, pw>>

InitSeed == InitWith(Pids, SeedLinks)

NextSeed ==
    \/ \E pid \in Pids, cred \in Creds : MapCheck(pid, cred)
    \/ MapCopy
    \/ \E id \in {<<"1">>, <<"2">>} : OtherWriter(id)
    \/ rq.op = "map" /\ NextRequest(FALSE)

SpecSeed == InitSeed /\ [][NextSeed]_vars

(***************************************************************************)
(* Properties.                                                             *)
(***************************************************************************)
HandlerOps == {"getattr", "open", "release", "fsync", "read", "write", "setattr"}

ResolvingOps == {"getattr", "open", "setattr"}

\* C1: every operation of the engine that is called with an inode number
\* other than 1 replies ENOENT and performs no operation on any backing
\* file or descriptor.
C1_OtherInodeRejected ==
    (rq.op \in HandlerOps /\ rq.ino # TheIno)
        => (reply = <<ReplyError(ENOENT)>> /\ ops = <<>>)

\* whether the symlink content has the form net:[...]
HasNetForm(v) ==
    /\ v.kind = "text"
    /\ Len(v.s) >= 6
    /\ SubSeq(v.s, 1, 5) = Str_net \o <<":", "[">>
    /\ v.s[Len(v.s)] = "]"

\* C2 as stated: for every pid whose symlink content is not of the form
\* net:[...] (no ':', a prefix other than 'net', or a right part not
\* enclosed in brackets), map returns no path.
C2_NotNetFormNoPath ==
    (mapped.called /\ mapped.netns.kind = "text" /\ ~HasNetForm(mapped.netns))
        => mapped.path = None

\* whether the symlink content has no ':' or a part before the first ':'
\* that is not exactly net
NoNetPrefix(v) ==
    /\ v.kind = "text"
    /\ \/ IndexFrom(v.s, ":", 1) = 0
       \/ SubSeq(v.s, 1, IndexFrom(v.s, ":", 1) - 1) # Str_net

\* C2, amended: for every pid whose symlink content has no ':' at all or a
\* part before the first ':' other than exactly 'net', every call of map
\* returns no path (so repeated calls with unchanged content agree) and
\* makes no system call on a backing file.
C2_NoPrefixNoPath ==
    (mapped.called /\ NoNetPrefix(mapped.netns)) => (mapped.path = None /\ ops = <<>>)

C2_Witness ==
    /\ mapped.called
    /\ mapped.netns = Text(<<"f", "o", "o", ":", "[", "1", "]">>)
    /\ mapped.path = None

\* C3: whenever the resolver yields no path, getattr, open and setattr on
\* inode 1 reply ENOENT and make no system call on a backing file or
\* descriptor (also a setattr with a new size and an open handle), and the
\* session loop goes on to the next request.
C3_UnmappedIsENOENT ==
    (rq.op \in ResolvingOps /\ rq.ino = TheIno /\ mapped.path = None)
        => /\ mapped.called
           /\ reply = <<ReplyError(ENOENT)>>
           /\ ops = <<>>
           /\ ENABLED NextRequest(FALSE)

C3_Witness ==
    /\ rq.op = "setattr"
    /\ rq.ino = TheIno
    /\ rq.size # None
    /\ rq.fh # None
    /\ IsOpen(fds, rq.fh[1])
    /\ mapped.called
    /\ mapped.path = None
    /\ reply = <<ReplyError(ENOENT)>>

Digits == {"0", "1", "2", "3", "4", "5", "6", "7", "8", "9"}

\* the D of a symlink content net:[D]
NetId(v) == SubSeq(v.s, 6, Len(v.s) - 1)

\* whether the symlink content is net:[D] with D one or more decimal digits
HasNetDigits(v) ==
    /\ HasNetForm(v)
    /\ NetId(v) # <<>>
    /\ \A i \in 1 .. Len(NetId(v)) : NetId(v)[i] \in Digits

\* C4: for every pid whose symlink target is net:[D], D a string of one or
\* more decimal digits, and a non-empty extension E, map returns exactly
\* <backing-directory>/D.E, whatever the uid and gid of the request.
C4_DigitsPath ==
    (mapped.called /\ HasNetDigits(mapped.netns) /\ cfg.extension # <<>>)
        => mapped.path = Some(cfg.backing_directory \o <<"/">> \o NetId(mapped.netns)
                              \o <<".">> \o cfg.extension)

\* pid 42, net:[4026531992], /etc/netns-files, conf
C4_Witness ==
    /\ mapped.called
    /\ mapped.pid = 42
    /\ mapped.netns = Text(NetLink(Str_example))
    /\ cfg.backing_directory = Dir_example
    /\ cfg.extension = Ext_conf
    /\ mapped.path = Some(Dir_example \o <<"/">> \o Str_example \o <<".">> \o Ext_conf)

\* whether the handler has called map, map has returned a path, and the
\* handler's request is for inode 1
Resolved == rq.op \in ResolvingOps /\ rq.ino = TheIno /\ mapped.called /\ mapped.path # None

\* the calls the resolver made on the target, in order
OpsOf(call) == SelectSeq(ops, LAMBDA o : o.call = call)

\* whether the default file is configured and is a readable regular file
DefaultReadable == cfg.default_file # None /\ FileAt(files, cfg.default_file[1]) # None

\* C5 as stated: if a default file is configured and readable and the
\* resolved target file is absent, then after a resolution triggered by
\* getattr, open or setattr the target file exists and its contents are
\* those of the default file.
C5_SeededFromDefault ==
    (Resolved /\ DefaultReadable /\ mapped.before = None)
        => /\ mapped.after # None
           /\ mapped.after[1].data = FileAt(files, cfg.default_file[1])[1].data

\* C5, amended: if a default file is configured and readable, the resolved
\* target file is absent and the backing directory lets the daemon create
\* the target, then resolution copies the default file to the target with
\* success, and when it returns the target exists with the contents of the
\* default file.
C5_SeededWhenCreatable ==
    (Resolved /\ DefaultReadable /\ mapped.before = None /\ dirWritable)
        => /\ OpsOf("copy") = <<Op("copy", mapped.path[1], 0)>>
           /\ mapped.after # None
           /\ mapped.after[1].data = FileAt(files, cfg.default_file[1])[1].data

C5_Witness ==
    /\ Resolved
    /\ DefaultReadable
    /\ mapped.before = None
    /\ dirWritable
    /\ mapped.after = Some(RegularFile(TemplateData))

\* C6: if the target file exists when resolution checks it, the default
\* file is not copied and resolution leaves the target as it was, whatever
\* the default file contains and however often resolution is repeated.
C6_ExistingNotSeeded ==
    (mapped.called /\ mapped.path # None /\ mapped.before # None)
        => /\ OpsOf("copy") = <<>>
           /\ mapped.after = mapped.before

\* the target exists with contents other than those of the configured and
\* readable default file
C6_Witness ==
    /\ Resolved
    /\ DefaultReadable
    /\ mapped.before # None
    /\ mapped.before[1].data # TemplateData
    /\ OpsOf("metadata") = <<Op("metadata", mapped.path[1], 0)>>
    /\ mapped.after = mapped.before

\* the last system call the handler made
LastOp == ops[Len(ops)]

\* no I/O error is injected into the system calls of the request
NoFault == \A i \in DOMAIN rq.fault : rq.fault[i] = 0

\* C7: resolution never fails because the target file is missing.  For a
\* symlink content net:[D], getattr, open and setattr on inode 1 get the
\* target path from map, also when no default file is configured and the
\* target is absent and when the copy of the default file fails.  When
\* the target is still absent after map, the handler goes on to its
\* system call on that path, and a failure of the request is the error of
\* that call: ENOENT for the stat of getattr and of a setattr without a
\* size, for the truncate of a setattr without a handle, and for an open
\* without O_CREAT that finds a free descriptor.
C7_MissingTargetDeferred ==
    (rq.op \in ResolvingOps /\ rq.ino = TheIno /\ HasNetDigits(mapped.netns))
        => /\ mapped.called
           /\ mapped.path = Some(cfg.backing_directory \o <<"/">> \o NetId(mapped.netns)
                                  \o <<".">> \o cfg.extension)
           /\ mapped.after = None =>
                 /\ LastOp.call \in {"stat", "open", "truncate", "ftruncate"}
                 /\ LastOp.call # "ftruncate" => LastOp.arg = mapped.path[1]
                 /\ reply[1].kind = "error" => reply[1].errno = LastOp.err
                 /\ LastOp.err = 0 => LastOp.call = "open" /\ HasBit(rq.flags, O_CREAT)
                 /\ (NoFault /\ LastOp.call \in {"stat", "truncate"})
                        => reply = <<ReplyError(ENOENT)>>
                 /\ (NoFault /\ LastOp.call = "open" /\ ~HasBit(rq.flags, O_CREAT)
                        /\ FreeFds(fds) # {})
                        => reply = <<ReplyError(ENOENT)>>

\* the copy of the configured default file has failed, map has returned
\* the path all the same, and the stat of getattr has replied ENOENT
C7_Witness ==
    /\ Resolved
    /\ rq.op = "getattr"
    /\ cfg.default_file # None
    /\ \E i \in DOMAIN ops : ops[i].call = "copy" /\ ops[i].err # 0
    /\ mapped.after = None
    /\ LastOp = Op("stat", mapped.path[1], ENOENT)
    /\ reply = <<ReplyError(ENOENT)>>

\* the read follows a write at offset 0 on the same handle, asks for as
\* many bytes as were written, at offset 0; the handle is open for reading
\* and writing at the offsets given (no O_APPEND) and the write was
\* replied with the length of its data
ReadBack ==
    /\ pw # None
    /\ rq.op = "read"
    /\ rq.ino = TheIno
    /\ rq.fh = pw[1].fh
    /\ rq.offset = 0
    /\ rq.size = DLen(pw[1].data)
    /\ fds[rq.fh].acc = O_RDWR
    /\ ~fds[rq.fh].append
    /\ pw[1].ret = DLen(pw[1].data)

\* C8 as stated: on a handle returned by open, a write of bytes B at
\* offset 0 followed by a read of length |B| at offset 0 returns exactly
\* B, for every length of B.
C8_RoundTrip == ReadBack => reply = <<ReplyData(pw[1].data)>>

\* C8, amended: on a handle opened for reading and writing without
\* O_APPEND, a write of bytes B at offset 0 that is replied with |B| bytes
\* written, followed by a read of length |B| at offset 0, returns the
\* first min(|B|, 65536) bytes of B: exactly B when |B| <= 65536.
C8_RoundTripClamped ==
    ReadBack => reply = <<ReplyData(Take(pw[1].data, Min(DLen(pw[1].data), 65536)))>>

\* B is longer than the clamp and the reply has the first 65536 bytes
C8_Witness ==
    /\ ReadBack
    /\ DLen(pw[1].data) > 65536
    /\ reply = <<ReplyData(Fill(2, 65536))>>

\* the bytes of the file behind descriptor fd from offset on
FileFrom(fd, offset) == Drop(files[fds[fd].key].data, offset)

\* C9: the reply of a read carries at most min(size, 65536) bytes, and
\* exactly the bytes pread obtained at the offset: the bytes of the file
\* from the offset on, up to that many, with nothing added when the file
\* ends before.
C9_ReadClamped ==
    (rq.op = "read" /\ reply[1].kind = "data")
        => /\ DLen(reply[1].data) <= Min(rq.size, 65536)
           /\ DLen(reply[1].data) =
                 Min(Min(rq.size, 65536), DLen(FileFrom(rq.fh, rq.offset)))
           /\ reply[1].data = Take(FileFrom(rq.fh, rq.offset), DLen(reply[1].data))

\* 1 MiB is asked of a file longer than 65536 bytes: 65536 bytes come
C9_Witness ==
    /\ rq.op = "read"
    /\ rq.size = 1048576
    /\ reply[1].kind = "data"
    /\ DLen(FileFrom(rq.fh, rq.offset)) > 65536
    /\ DLen(reply[1].data) = 65536

\* a setattr on inode 1 with a new size for which map returned a path
Resizing == Resolved /\ rq.op = "setattr" /\ rq.size # None

\* the system calls of the handler after those of map
OwnOps == SelectSeq(ops, LAMBDA o : o.call \notin {"metadata", "copy"})

\* C10: a setattr on inode 1 with a new size S truncates to S the file
\* resolved for the caller when there is no handle, and the descriptor of
\* the handle when there is one.  When the truncation fails the reply is
\* its error and nothing else is done; otherwise the reply is that of a
\* stat of the resolved path made after the truncation: the attributes of
\* the file now at that path.
C10_SetattrSize ==
    Resizing =>
        LET S == rq.size[1]
            path == mapped.path[1]
            trunc == IF rq.fh = None THEN Op("truncate", path, OwnOps[1].err)
                     ELSE Op("ftruncate", rq.fh[1], OwnOps[1].err)
            now == FileAt(files, path)
        IN  /\ OwnOps[1] = trunc
            /\ trunc.err # 0 => OwnOps = <<trunc>> /\ reply = <<ReplyError(trunc.err)>>
            /\ trunc.err = 0 =>
                  /\ rq.fh = None => DLen(now[1].data) = S
                  /\ rq.fh # None => DLen(files[fds[rq.fh[1]].key].data) = S
                  /\ Len(OwnOps) = 2
                  /\ OwnOps[2].call = "stat" /\ OwnOps[2].arg = path
                  /\ OwnOps[2].err # 0 => reply = <<ReplyError(OwnOps[2].err)>>
                  /\ OwnOps[2].err = 0 =>
                        /\ now # None
                        /\ reply = <<ReplyAttr(TheIno, [size |-> DLen(now[1].data),
                                                        mode |-> now[1].mode])>>

\* the handle is on another file than the one now resolved: the handle's
\* file is truncated, the reply has the size of the resolved one
C10_Witness ==
    /\ Resizing
    /\ rq.fh # None
    /\ IsOpen(fds, rq.fh[1])
    /\ Resolve(files, mapped.path[1]).key # fds[rq.fh[1]].key
    /\ DLen(files[fds[rq.fh[1]].key].data) = rq.size[1]
    /\ reply[1].kind = "attr"
    /\ reply[1].attr.size # rq.size[1]

\* the handles that are open, except fd
OthersOpen(fdt, fd) == {g \in Fds \ {fd} : IsOpen(fdt, g)}

\* what a step does to the descriptors
OwnDescriptorStep ==
    /\ (rq'.op = "open" /\ reply'[1].kind = "opened") =>
          /\ ~IsOpen(fds, reply'[1].fh)
          /\ IsOpen(fds', reply'[1].fh)
          /\ \A g \in Fds \ {reply'[1].fh} : fds'[g] = fds[g]
    /\ rq'.op = "release" =>
          /\ \A g \in Fds \ {rq'.fh} : fds'[g] = fds[g]
          /\ \A g \in OthersOpen(fds, rq'.fh) :
                /\ sys_fsync(fds', g, 0).err = 0
                /\ fds[g].acc # O_WRONLY => sys_pread(files', fds', g, 1, 0, 0).err # EBADF
                /\ fds[g].acc # 0 =>
                      sys_pwrite(files', fds', g, Fill(2, 1), 0, 0).err # EBADF
    /\ \A g \in Fds : (IsOpen(fds, g) /\ ~IsOpen(fds', g))
                           => (rq'.op = "release" /\ rq'.fh = g)

\* C11: every successful open returns a handle that was not open and now
\* denotes a descriptor of its own, leaving every other descriptor as it
\* was; a release changes no descriptor but the one of its handle, so
\* fsync, read and write on the other open handles do not fail with
\* EBADF; and a descriptor that is open stays open in every step that is
\* not a release of its handle.
C11_OwnDescriptor == [][OwnDescriptorStep]_vars

\* two handles were open, one has been released, the other is still open
C11_Witness ==
    /\ rq.op = "release"
    /\ reply = <<ReplyOk>>
    /\ ~IsOpen(fds, rq.fh)
    /\ OthersOpen(fds, rq.fh) # {}

\* the system calls of the handler after those of map, in the next state
OwnOpsNext == SelectSeq(ops', LAMBDA o : o.call \notin {"metadata", "copy"})

\* whether the handler of the next state made the call with success
DoneNext(call) == \E i \in DOMAIN ops' : ops'[i].call = call /\ ops'[i].err = 0

\* a handler has ended with an error reply
FailedStep == rq'.op \in HandlerOps /\ reply'[1].kind = "error"

\* C12 as stated: a request that ends in an error reply leaves nothing
\* behind: the backing files and the descriptors are as they were before
\* it, so that a later request is handled as if the failed one had not
\* been issued.
C12_FailureLeavesNothing == [][FailedStep => (files' = files /\ fds' = fds)]_vars

\* what a failed request may leave, and that it retries nothing
LocalFailureStep ==
    FailedStep =>
        /\ fds' # fds =>
              /\ rq'.op = "release"
              /\ fds' = [fds EXCEPT ![rq'.fh] = Closed]
        /\ files' # files =>
              \/ DoneNext("copy")
              \/ DoneNext("truncate")
              \/ DoneNext("ftruncate")
        /\ \A i \in 1 .. Len(OwnOpsNext) - 1 : OwnOpsNext[i].err = 0
        /\ \A i, j \in DOMAIN ops' : ops'[i].call = ops'[j].call => i = j
        /\ UNCHANGED <<cfg, link, dirWritable>>

\* C12, amended: the engine keeps no state between requests; a request
\* that ends in an error reply changes the backing files only by what its
\* system calls did with success before the failing one (the target
\* seeded by the resolver, a truncation done before the stat failed) and
\* the descriptors only by a close that released its descriptor although
\* it failed; the failing call ends the handler, and no call is made
\* twice.
C12_FailureIsLocal == [][LocalFailureStep]_vars

\* the truncation of the handle's file is done, the stat of the path now
\* resolved has failed: an error reply, and a file that is cut
C12_Witness ==
    /\ Resizing
    /\ rq.fh # None
    /\ NoFault
    /\ \E i \in DOMAIN ops : ops[i] = Op("ftruncate", rq.fh[1], 0)
    /\ reply = <<ReplyError(ENOENT)>>
    /\ DLen(files[fds[rq.fh[1]].key].data) = rq.size[1]

\* the system calls of the handler that failed
FailedOps == SelectSeq(OwnOps, LAMBDA o : o.err # 0)

\* C13: a handler sends exactly one reply.  When one of its system calls
\* (stat, open, close, fsync, fdatasync, pread, pwrite, truncate,
\* ftruncate) fails, that call is the only one that failed and the last
\* one made, and the reply is an error with exactly the error number of
\* that call; when none fails and a system call was made, the reply is
\* not an error.
C13_ErrnoPassedThrough ==
    rq.op \in HandlerOps =>
        /\ Len(reply) = 1
        /\ FailedOps # <<>> =>
              /\ FailedOps = <<LastOp>>
              /\ reply[1].kind = "error"
              /\ reply[1].errno = LastOp.err
              /\ DOMAIN reply[1] = {"kind", "errno"}
        /\ (FailedOps = <<>> /\ OwnOps # <<>>) => reply[1].kind # "error"

\* the stat of getattr fails with an error that is not ENOENT, and the
\* reply carries it
C13_Witness ==
    /\ rq.op = "getattr"
    /\ Resolved
    /\ LastOp = Op("stat", mapped.path[1], EIO)
    /\ reply[1].kind = "error"
    /\ reply[1].errno = EIO

\* a request is in map between its metadata query, which found the target
\* missing, and its copy
BetweenCheckAndCopy == rq.op = "map_checked"

\* another request enters map and finds the same target missing
SecondCheck ==
    \E pid \in Pids, cred \in Creds :
        /\ MapCheck(pid, cred)
        /\ rq'.op = "map_checked"
        /\ mapped'.path = mapped.path

Between(v) == NsOnly(SubSeq(v.s, IndexFrom(v.s, ":", 1) + 1, Len(v.s)))

\* whether path p is a direct entry of directory dir: dir, a separator and
\* one name that is a file name
DirectEntry(dir, p) ==
    /\ Len(p) > Len(dir) + 1
    /\ SubSeq(p, 1, Len(dir) + 1) = dir \o <<"/">>
    /\ \A i \in Len(dir) + 2 .. Len(p) : p[i] # "/"
    /\ SubSeq(p, Len(dir) + 2, Len(p)) \notin {<<".">>, <<".", ".">>}

\* C15: for every symlink content that passes the 'net' prefix check,
\* whatever string stands between the brackets, map returns a direct entry
\* of the backing directory, whose name is that string with the extension
\* applied: never the backing directory itself, a path in a sub-directory
\* or a path outside the backing directory.
C15_DirectEntry ==
    (mapped.called /\ mapped.netns.kind = "text" /\ ~NoNetPrefix(mapped.netns)) =>
        /\ mapped.path # None
        /\ DirectEntry(cfg.backing_directory, mapped.path[1])
        /\ SubSeq(mapped.path[1], Len(cfg.backing_directory) + 2, Len(mapped.path[1]))
              = IF Len(cfg.extension) > 0
                THEN set_extension(Between(mapped.netns), cfg.extension)
                ELSE Between(mapped.netns)

\* the operations that take a handle and no path
HandleOps == {"read", "write", "fsync", "release"}

\* the keys of the files that differ between fs and fs2
Changed(fs, fs2) ==
    {k \in DOMAIN fs \cup DOMAIN fs2 :
        IF k \in DOMAIN fs /\ k \in DOMAIN fs2 THEN fs[k] # fs2[k] ELSE TRUE}

\* what a step on a handle, and a step on the path, act on
HandleBoundStep ==
    /\ \A fd \in Fds : (IsOpen(fds, fd) /\ IsOpen(fds', fd)) => fds'[fd] = fds[fd]
    /\ rq'.op \in HandleOps =>
          /\ mapped' = NotCalled
          /\ \A i \in DOMAIN ops' :
                /\ ops'[i].call \in {"pread", "pwrite", "fsync", "fdatasync", "close"}
                /\ ops'[i].arg = rq'.fh
          /\ \A k \in Changed(files, files') :
                IsOpen(fds, rq'.fh) /\ k = fds[rq'.fh].key
          /\ (rq'.op = "read" /\ reply'[1].kind = "data") =>
                reply'[1].data = Take(Drop(files[fds[rq'.fh].key].data, rq'.offset),
                                      DLen(reply'[1].data))
          /\ (rq'.op = "write" /\ reply'[1].kind = "written" /\ ~fds[rq'.fh].append) =>
                Take(Drop(files'[fds[rq'.fh].key].data, rq'.offset), reply'[1].size)
                    = Take(rq'.data, reply'[1].size)
    /\ (rq'.op \in {"getattr", "setattr"} /\ rq'.ino = TheIno) =>
          /\ mapped'.called
          /\ mapped'.pid = rq'.pid
          /\ mapped'.netns = link[rq'.pid]
          /\ mapped'.path = None => reply' = <<ReplyError(ENOENT)>>
          /\ mapped'.path # None =>
                /\ \A i \in DOMAIN ops' :
                      ops'[i].call \in {"metadata", "copy", "stat", "truncate"}
                          => ops'[i].arg = mapped'.path[1]
                /\ (rq'.op = "getattr" \/ rq'.fh = None) =>
                      \A k \in Changed(files, files') :
                          k = Resolve(files', mapped'.path[1]).key
                /\ reply'[1].kind = "attr" =>
                      reply'[1].attr.size = DLen(FileAt(files', mapped'.path[1])[1].data)

\* C16: read, write, fsync and release on a handle never consult the
\* resolver: they act on the descriptor bound at open time, which stays
\* bound to the same file whatever the caller resolves to now, while
\* getattr and a setattr without a handle act on the file resolved for the
\* caller at the time of the request.
C16_HandleBound == [][HandleBoundStep]_vars

\* a write through a handle opened on the file of namespace 1, by a caller
\* that now resolves to another file or to none
C16_Witness ==
    /\ rq.op = "write"
    /\ rq.ino = TheIno
    /\ reply[1].kind = "written"
    /\ fds[rq.fh].key = TargetKey(<<"1">>)
    /\ link[rq.pid] # Text(NetLink(<<"1">>))
    /\ Take(files[TargetKey(<<"1">>)].data, 1) = rq.data

\* a step that is a setattr on inode 1 without a size
NoSize == rq'.op = "setattr" /\ rq'.ino = TheIno /\ rq'.size = None

\* no file there was is changed or removed, and no descriptor
NothingChanged ==
    /\ fds' = fds
    /\ \A k \in DOMAIN files : k \in DOMAIN files' /\ files'[k] = files[k]
    /\ \A i \in DOMAIN OwnOpsNext : OwnOpsNext[i].call = "stat"

\* the reply has the attributes of file f
AttrOf(f) ==
    /\ reply'[1].kind = "attr"
    /\ reply'[1].attr.ino = TheIno
    /\ reply'[1].attr.size = DLen(f.data)
    /\ reply'[1].attr.perm = f.mode % 65536

NoSizeSucceedsStep ==
    (NoSize /\ mapped'.path # None /\ rq'.fault[2] = 0) =>
        /\ NothingChanged
        /\ reply'[1].kind = "attr"
        /\ FileAt(files', mapped'.path[1]) # None
        /\ AttrOf(FileAt(files', mapped'.path[1])[1])

\* C17 as stated: a setattr on inode 1 that carries no new size, from a
\* caller for which a path is resolved and with no I/O error in its stat,
\* leaves the contents and metadata of the backing file unchanged,
\* whatever mode, uid, gid or timestamps it requests, and replies with the
\* current attributes of the backing file as a success.
C17_NoSizeSucceeds == [][NoSizeSucceedsStep]_vars

NoSizeStep ==
    NoSize =>
        /\ NothingChanged
        /\ mapped'.path = None => reply' = <<ReplyError(ENOENT)>>
        /\ (mapped'.path # None /\ mapped'.after = None) =>
              /\ reply'[1].kind = "error"
              /\ rq'.fault[2] = 0 => reply'[1].errno = ENOENT
        /\ (mapped'.path # None /\ mapped'.after # None) =>
              /\ FileAt(files', mapped'.path[1]) = mapped'.after
              /\ mapped'.before # None => mapped'.after = mapped'.before
              /\ rq'.fault[2] = 0 => AttrOf(mapped'.after[1])
              /\ rq'.fault[2] # 0 => reply' = <<ReplyError(rq'.fault[2])>>

\* C17, amended: a setattr on inode 1 that carries no new size changes no
\* existing file, in contents or metadata, and no descriptor, whatever
\* mode, uid, gid or timestamps it requests and with or without a handle;
\* when the target of the caller exists once resolved (it was there, or
\* has just been seeded) and its stat succeeds, the reply is a success
\* with the current attributes of that file; when the caller has no
\* mapping or the target is missing the reply is ENOENT, and when the stat
\* fails, its error.
C17_NoSizeNoChange == [][NoSizeStep]_vars

\* a setattr with a mode, uid, gid or timestamps and no size, on a file
\* that is not empty
C17_Witness ==
    /\ Resolved
    /\ rq.op = "setattr"
    /\ rq.size = None
    /\ rq.other
    /\ mapped.before # None
    /\ reply[1].kind = "attr"
    /\ reply[1].attr.size > 0
    /\ reply[1].attr.size = DLen(FileAt(files, mapped.path[1])[1].data)

====
